---- MODULE Spec2Model ----
(***************************************************************************)
(* A model of the `vet` crate: the `Vet` trait (is_valid / vet), the       *)
(* `Valid<T>` wrapper, the provided implementations for arrays, options    *)
(* and vectors, and `Valid<Option<T>>::transpose`.                         *)
(*                                                                         *)
(* A client owns one object (`cur`) and possibly one clone of a wrapper    *)
(* (`copy`) and drives the library through its public operations.  Calls   *)
(* of is_valid and vet run step by step (one element check per step), so   *)
(* that the order of element checks is visible in the behaviour.           *)
(***************************************************************************)
EXTENDS Integers, Sequences, FiniteSets, TLC

MaxElem == 1
MaxLen == 2

(* ---------------------------------------------------------------- values *)

\* The element type T of the host: a wrapper over a small number.
Elem == 0..MaxElem

\* The host's error type (`type Error`), after the crate's doc example.
Errors == {"TooShort", "TooLong"}

\* Result<(), Error> of is_valid.
Results == {"Ok"} \cup Errors

\* Every value is a tagged tree of one shape.
Unit == [tag |-> "Unit", n |-> 0, items |-> <<>>]
Leaf(n) == [tag |-> "T", n |-> n, items |-> <<>>]
None == [tag |-> "None", n |-> 0, items |-> <<>>]
Some(v) == [tag |-> "Some", n |-> 0, items |-> <<v>>]
Array(s) == [tag |-> "Array", n |-> 0, items |-> s]
Vec(s) == [tag |-> "Vec", n |-> 0, items |-> s]

SeqsUpTo(S, k) == UNION {[1..m -> S] : m \in 0..k}

\* The types the client instantiates the generic implementations at, written
\* outermost constructor first: <<"Option", "Vec">> is Option<Vec<T>>.
Types ==
    { <<>>, <<"Option">>, <<"Array">>, <<"Vec">>,
      <<"Option", "Vec">>, <<"Vec", "Option">>,
      <<"Option", "Array">>, <<"Option", "Option">> }

RECURSIVE Values(_)
Values(ty) ==
    IF ty = <<>> THEN {Leaf(n) : n \in Elem}
    ELSE LET inner == Values(Tail(ty))
         IN  CASE Head(ty) = "Option" -> {None} \cup {Some(x) : x \in inner}
               [] Head(ty) = "Array"  -> {Array(s) : s \in SeqsUpTo(inner, MaxLen)}
               [] Head(ty) = "Vec"    -> {Vec(s) : s \in SeqsUpTo(inner, MaxLen)}

(* ------------------------------------------------ is_valid, as a function *)

RECURSIVE IsValid(_, _)

\* Iterator::try_for_each over s from position i (1-based): the first
\* error stops the loop and is returned; exhaustion yields Ok.
RECURSIVE TryForEach(_, _, _)
TryForEach(f, s, i) ==
    IF i > Len(s) THEN "Ok"
    ELSE LET r == IsValid(f, s[i])
         IN  IF r = "Ok" THEN TryForEach(f, s, i + 1) ELSE r

\* impl Vet for [T; N]
IsValidArray(f, a) == TryForEach(f, a.items, 1)

\* impl Vet for Option<T>
IsValidOption(f, o) ==
    IF o.tag = "Some" THEN IsValid(f, o.items[1]) ELSE "Ok"

\* impl Vet for Vec<T>
IsValidVec(f, v) == TryForEach(f, v.items, 1)

\* Trait dispatch of `is_valid`; f is the host's implementation for T.
IsValid(f, v) ==
    CASE v.tag = "T" -> f[v.n]
      [] v.tag \in {"None", "Some"} -> IsValidOption(f, v)
      [] v.tag = "Array" -> IsValidArray(f, v)
      [] v.tag = "Vec" -> IsValidVec(f, v)

(* ----------------------------------------------------------------- state *)

VARIABLES
    impl,     \* the host's is_valid for T: Elem -> Results
    cur,      \* the object the client owns
    copy,     \* a clone of a wrapper, when the client made one
    pc,       \* "idle", or the position inside a running is_valid / vet
    op,       \* the operation running, or the last one that ran
    arg,      \* `self` of the running / last is_valid or vet
    it,       \* the iterator position inside try_for_each
    checked,  \* indices of the elements whose is_valid was called, in order
    res,      \* the result of is_valid on arg, "Pending" until known
    nself,    \* number of is_valid calls on arg made by the operation
    ret       \* what the last operation returned

vars == <<impl, cur, copy, pc, op, arg, it, checked, res, nself, ret>>

\* What the client may hold.  `via` and `src` record how a wrapper came to
\* be: the operation that constructed it and the argument of the vet call
\* it descends from.
Nothing == [kind |-> "none", ty |-> <<>>, val |-> Unit, via |-> "", src |-> Unit]
Raw(ty, v) == [kind |-> "raw", ty |-> ty, val |-> v, via |-> "", src |-> Unit]
Valid(ty, v, via, src) ==
    [kind |-> "valid", ty |-> ty, val |-> v, via |-> via, src |-> src]

Ret(kind, err, v) == [kind |-> kind, err |-> err, val |-> v]

\* Vet::vet as a function of the value: Ok(Valid(v)) or Err(e).
Vet(f, v) ==
    LET r == IsValid(f, v)
    IN  IF r = "Ok" THEN Ret("Ok", "", v) ELSE Ret("Err", r, Unit)

Init ==
    /\ impl \in [Elem -> Results]
    /\ cur = Nothing
    /\ copy = Nothing
    /\ pc = "idle"
    /\ op = "none"
    /\ arg = Unit
    /\ it = 0
    /\ checked = <<>>
    /\ res = "Pending"
    /\ nself = 0
    /\ ret = Ret("Unit", "", Unit)

\* No is_valid frame is touched by the wrapper's own operations.
NoFrame == UNCHANGED <<impl, pc, arg, it, checked, res, nself>>

(* ------------------------------------------------------ client operations *)

\* The client, holding nothing yet, builds a value of one of the types.
New(ty, v) ==
    /\ pc = "idle"
    /\ op = "none"
    /\ cur' = Raw(ty, v)
    /\ op' = "new"
    /\ ret' = Ret("Unit", "", Unit)
    /\ copy' = copy
    /\ NoFrame

\* The client's bindings go out of scope: everything it held is dropped,
\* and the frame of the last call is gone with it.
Drop ==
    /\ pc = "idle"
    /\ op # "none"
    /\ cur' = Nothing
    /\ copy' = Nothing
    /\ op' = "none"
    /\ arg' = Unit
    /\ it' = 0
    /\ checked' = <<>>
    /\ res' = "Pending"
    /\ nself' = 0
    /\ ret' = Ret("Unit", "", Unit)
    /\ UNCHANGED <<impl, pc>>

\* cur.is_valid(): a borrow; through Deref it is callable on a wrapper too.
CallIsValid ==
    /\ pc = "idle"
    /\ cur.kind \in {"raw", "valid"}
    /\ pc' = "is_valid"
    /\ op' = "is_valid"
    /\ arg' = cur.val
    /\ it' = 0
    /\ checked' = <<>>
    /\ res' = "Pending"
    /\ nself' = 1
    /\ ret' = Ret("Unit", "", Unit)
    /\ UNCHANGED <<impl, cur, copy>>

\* cur.vet(): the value is moved into the call.
CallVet ==
    /\ pc = "idle"
    /\ cur.kind = "raw"
    /\ pc' = "vet"
    /\ op' = "vet"
    /\ arg' = cur.val
    /\ cur' = [Nothing EXCEPT !.ty = cur.ty]
    /\ it' = 0
    /\ checked' = <<>>
    /\ res' = "Pending"
    /\ nself' = 0
    /\ ret' = Ret("Unit", "", Unit)
    /\ UNCHANGED <<impl, copy>>

(* ------------------------------------------------------------ Vet::vet *)

\* `match self.is_valid()`: vet calls is_valid on its argument.
VetMatch ==
    /\ pc = "vet"
    /\ pc' = "is_valid"
    /\ nself' = nself + 1
    /\ UNCHANGED <<impl, cur, copy, op, arg, it, checked, res, ret>>

\* Variant of VetReturn: the value is wrapped whatever is_valid said.
VetReturnWrapsAlways ==
    /\ pc = "done"
    /\ op = "vet"
    /\ pc' = "idle"
    /\ cur' = Valid(cur.ty, arg, "vet", arg)
    /\ ret' = Ret("Ok", "", arg)
    /\ UNCHANGED <<impl, copy, op, arg, it, checked, res, nself>>

\* Variant of VetReturn: the error of is_valid is replaced by a fixed one.
VetReturnFixedError ==
    /\ pc = "done"
    /\ op = "vet"
    /\ pc' = "idle"
    /\ IF res = "Ok"
       THEN /\ cur' = Valid(cur.ty, arg, "vet", arg)
            /\ ret' = Ret("Ok", "", arg)
       ELSE /\ cur' = Nothing
            /\ ret' = Ret("Err", "TooShort", Unit)
    /\ UNCHANGED <<impl, copy, op, arg, it, checked, res, nself>>

\* Variant of VetReturn: on failure is_valid is called a second time to
\* fetch the error.
VetReturnRevalidates ==
    /\ pc = "done"
    /\ op = "vet"
    /\ IF res = "Ok"
       THEN /\ cur' = Valid(cur.ty, arg, "vet", arg)
            /\ ret' = Ret("Ok", "", arg)
            /\ pc' = "idle"
            /\ UNCHANGED <<it, checked, res>>
       ELSE IF nself < 2
       THEN /\ pc' = "vet"
            /\ it' = 0
            /\ checked' = <<>>
            /\ res' = "Pending"
            /\ UNCHANGED <<cur, ret>>
       ELSE /\ cur' = Nothing
            /\ ret' = Ret("Err", res, Unit)
            /\ pc' = "idle"
            /\ UNCHANGED <<it, checked, res>>
    /\ UNCHANGED <<impl, copy, op, arg, nself>>

\* The two arms of the match: wrap the value, or hand the error on.
VetReturn ==
    /\ pc = "done"
    /\ op = "vet"
    /\ pc' = "idle"
    /\ IF res = "Ok"
       THEN /\ cur' = Valid(cur.ty, arg, "vet", arg)
            /\ ret' = Ret("Ok", "", arg)
       ELSE /\ cur' = Nothing
            /\ ret' = Ret("Err", res, Unit)
    /\ UNCHANGED <<impl, copy, op, arg, it, checked, res, nself>>

\* A direct is_valid call returns its result to the client.
IsValidReturn ==
    /\ pc = "done"
    /\ op = "is_valid"
    /\ pc' = "idle"
    /\ ret' = IF res = "Ok" THEN Ret("Ok", "", Unit) ELSE Ret("Err", res, Unit)
    /\ UNCHANGED <<impl, cur, copy, op, arg, it, checked, res, nself>>

(* ----------------------------------------------- the bodies of is_valid *)

\* The host's is_valid on a T.
HostIsValid ==
    /\ pc = "is_valid"
    /\ arg.tag = "T"
    /\ res' = impl[arg.n]
    /\ pc' = "done"
    /\ UNCHANGED <<impl, cur, copy, op, arg, it, checked, nself, ret>>

\* One turn of try_for_each over the items of arg: the iterator is
\* exhausted (Ok), or the next element is checked and an error returns.
TryForEachStep ==
    IF it >= Len(arg.items)
    THEN /\ res' = "Ok"
         /\ pc' = "done"
         /\ UNCHANGED <<it, checked>>
    ELSE LET r == IsValid(impl, arg.items[it + 1])
         IN  /\ it' = it + 1
             /\ checked' = Append(checked, it + 1)
             /\ IF r = "Ok"
                THEN UNCHANGED <<res, pc>>
                ELSE /\ res' = r
                     /\ pc' = "done"

\* Variant of ArrayIsValid: every element is checked and the error of the
\* last failing one is returned.
ArrayIsValidLastError ==
    /\ pc = "is_valid"
    /\ arg.tag = "Array"
    /\ IF it >= Len(arg.items)
       THEN /\ res' = IF res = "Pending" THEN "Ok" ELSE res
            /\ pc' = "done"
            /\ UNCHANGED <<it, checked>>
       ELSE LET r == IsValid(impl, arg.items[it + 1])
            IN  /\ it' = it + 1
                /\ checked' = Append(checked, it + 1)
                /\ res' = IF r = "Ok" THEN res ELSE r
                /\ pc' = pc
    /\ UNCHANGED <<impl, cur, copy, op, arg, nself, ret>>

\* Variant of ArrayIsValid: the first error is remembered and returned, but
\* the remaining elements are still checked.
ArrayIsValidNoShortCircuit ==
    /\ pc = "is_valid"
    /\ arg.tag = "Array"
    /\ IF it >= Len(arg.items)
       THEN /\ res' = IF res = "Pending" THEN "Ok" ELSE res
            /\ pc' = "done"
            /\ UNCHANGED <<it, checked>>
       ELSE LET r == IsValid(impl, arg.items[it + 1])
            IN  /\ it' = it + 1
                /\ checked' = Append(checked, it + 1)
                /\ res' = IF res = "Pending" /\ r # "Ok" THEN r ELSE res
                /\ pc' = pc
    /\ UNCHANGED <<impl, cur, copy, op, arg, nself, ret>>

\* <[T; N] as Vet>::is_valid
ArrayIsValid ==
    /\ pc = "is_valid"
    /\ arg.tag = "Array"
    /\ TryForEachStep
    /\ UNCHANGED <<impl, cur, copy, op, arg, nself, ret>>

\* Variant of OptionIsValid: a present value is taken as valid unchecked.
OptionIsValidSkipsSome ==
    /\ pc = "is_valid"
    /\ arg.tag \in {"None", "Some"}
    /\ res' = "Ok"
    /\ pc' = "done"
    /\ UNCHANGED <<impl, cur, copy, op, arg, it, checked, nself, ret>>

\* Variant of OptionIsValid: absence is reported as an error.
OptionIsValidNoneFails ==
    /\ pc = "is_valid"
    /\ arg.tag \in {"None", "Some"}
    /\ IF arg.tag = "Some"
       THEN /\ res' = IsValid(impl, arg.items[1])
            /\ checked' = <<1>>
       ELSE /\ res' = "TooShort"
            /\ UNCHANGED checked
    /\ pc' = "done"
    /\ UNCHANGED <<impl, cur, copy, op, arg, it, nself, ret>>

\* <Option<T> as Vet>::is_valid
OptionIsValid ==
    /\ pc = "is_valid"
    /\ arg.tag \in {"None", "Some"}
    /\ IF arg.tag = "Some"
       THEN /\ res' = IsValid(impl, arg.items[1])
            /\ checked' = <<1>>
       ELSE /\ res' = "Ok"
            /\ UNCHANGED checked
    /\ pc' = "done"
    /\ UNCHANGED <<impl, cur, copy, op, arg, it, nself, ret>>

\* Variant of VecIsValid: the elements are visited from the back.
VecIsValidReversed ==
    /\ pc = "is_valid"
    /\ arg.tag = "Vec"
    /\ IF it >= Len(arg.items)
       THEN /\ res' = "Ok"
            /\ pc' = "done"
            /\ UNCHANGED <<it, checked>>
       ELSE LET i == Len(arg.items) - it
                r == IsValid(impl, arg.items[i])
            IN  /\ it' = it + 1
                /\ checked' = Append(checked, i)
                /\ IF r = "Ok"
                   THEN UNCHANGED <<res, pc>>
                   ELSE /\ res' = r
                        /\ pc' = "done"
    /\ UNCHANGED <<impl, cur, copy, op, arg, nself, ret>>

\* <Vec<T> as Vet>::is_valid
VecIsValid ==
    /\ pc = "is_valid"
    /\ arg.tag = "Vec"
    /\ TryForEachStep
    /\ UNCHANGED <<impl, cur, copy, op, arg, nself, ret>>

(* ------------------------------------------------- operations of Valid<T> *)

\* Variant of IntoInner: a present optional is unwrapped on the way out.
IntoInnerUnwrapsSome ==
    /\ pc = "idle"
    /\ cur.kind = "valid"
    /\ LET v == IF cur.val.tag = "Some" THEN cur.val.items[1] ELSE cur.val
       IN  /\ cur' = Raw(cur.ty, v)
           /\ ret' = Ret("Owned", "", v)
    /\ op' = "into_inner"
    /\ copy' = copy
    /\ NoFrame

\* Valid::into_inner: the wrapper is consumed, the client owns the value.
IntoInner ==
    /\ pc = "idle"
    /\ cur.kind = "valid"
    /\ cur' = Raw(cur.ty, cur.val)
    /\ ret' = Ret("Owned", "", cur.val)
    /\ op' = "into_inner"
    /\ copy' = copy
    /\ NoFrame

\* Deref for Valid<T>: a shared reference to the held value.
Deref ==
    /\ pc = "idle"
    /\ cur.kind = "valid"
    /\ ret' = Ret("Ref", "", cur.val)
    /\ op' = "deref"
    /\ UNCHANGED <<cur, copy>>
    /\ NoFrame

\* derive(Clone, Copy): a second wrapper around an equal value.
Clone ==
    /\ pc = "idle"
    /\ cur.kind = "valid"
    /\ copy' = Valid(cur.ty, cur.val, "clone", cur.src)
    /\ ret' = Ret("Unit", "", Unit)
    /\ op' = "clone"
    /\ cur' = cur
    /\ NoFrame

\* derive(PartialEq, Eq, ...): wrappers compare as the values they hold.
Compare ==
    /\ pc = "idle"
    /\ cur.kind = "valid"
    /\ copy.kind = "valid"
    /\ cur.ty = copy.ty
    /\ ret' = Ret(IF cur.val = copy.val THEN "True" ELSE "False", "", Unit)
    /\ op' = "eq"
    /\ UNCHANGED <<cur, copy>>
    /\ NoFrame

\* Variant of Transpose: the present value is lost.
TransposeDropsSome ==
    /\ pc = "idle"
    /\ cur.kind = "valid"
    /\ cur.ty # <<>>
    /\ Head(cur.ty) = "Option"
    /\ cur' = [Nothing EXCEPT !.ty = Tail(cur.ty)]
    /\ ret' = Ret("None", "", Unit)
    /\ op' = "transpose"
    /\ copy' = copy
    /\ NoFrame

\* Valid<Option<T>>::transpose
Transpose ==
    /\ pc = "idle"
    /\ cur.kind = "valid"
    /\ cur.ty # <<>>
    /\ Head(cur.ty) = "Option"
    /\ IF cur.val.tag = "Some"
       THEN /\ cur' = Valid(Tail(cur.ty), cur.val.items[1], "transpose", cur.src)
            /\ ret' = Ret("Some", "", cur.val.items[1])
       ELSE /\ cur' = [Nothing EXCEPT !.ty = Tail(cur.ty)]
            /\ ret' = Ret("None", "", Unit)
    /\ op' = "transpose"
    /\ copy' = copy
    /\ NoFrame

(* ------------------------------------------------------- specifications *)

\* The steps inside a running call.
Advance ==
    \/ VetMatch
    \/ HostIsValid
    \/ ArrayIsValid
    \/ OptionIsValid
    \/ VecIsValid
    \/ VetReturn
    \/ IsValidReturn

Next ==
    \/ \E ty \in Types : \E v \in Values(ty) : New(ty, v)
    \/ Drop
    \/ CallIsValid
    \/ CallVet
    \/ Advance
    \/ IntoInner
    \/ Deref
    \/ Clone
    \/ Compare
    \/ Transpose

Spec == Init /\ [][Next]_vars

\* The library is synchronous: a call that has begun runs to its return.
FairSpec == Spec /\ WF_vars(Advance)

(* ------------------------------------------------------------ properties *)

Returned(o) == pc = "idle" /\ op = o

Wrappers == {w \in {cur, copy} : w.kind = "valid"}

\* What a finished is_valid / vet hands back for the is_valid result r.
Handed(r) ==
    IF r = "Ok"
    THEN ret.kind = "Ok"
    ELSE ret = Ret("Err", r, Unit)

\* Indices of the elements of s that are not valid.
Failing(s) == {i \in 1..Len(s) : IsValid(impl, s[i]) # "Ok"}

Min(S) == CHOOSE m \in S : \A x \in S : m <= x

\* The law of a sequence: Ok iff no element fails, else the error of the
\* failing element of smallest index.
FirstError(s) ==
    IF Failing(s) = {} THEN "Ok" ELSE IsValid(impl, s[Min(Failing(s))])

\* C1: vet returns Ok(Valid(v)) with v equal to its argument exactly when
\* is_valid on the argument returns Ok, and otherwise returns exactly the
\* error is_valid returns.
VetContract ==
    Returned("vet") =>
        LET r == IsValid(impl, arg)
        IN  IF r = "Ok"
            THEN /\ ret = Ret("Ok", "", arg)
                 /\ cur.kind = "valid"
                 /\ cur.val = arg
            ELSE /\ ret = Ret("Err", r, Unit)
                 /\ cur.kind = "none"

VetContractWitness ==
    /\ Returned("vet")
    /\ arg.tag = "Some"
    /\ ret = Ret("Err", "TooLong", Unit)

\* C2: every wrapper that exists holds a value on which is_valid returns Ok.
WrapperInvariant ==
    \A w \in Wrappers : IsValid(impl, w.val) = "Ok"

WrapperInvariantWitness ==
    /\ cur.kind = "valid"
    /\ cur.via = "transpose"
    /\ cur.val.tag = "Vec"
    /\ Len(cur.val.items) = MaxLen
    /\ copy.kind = "valid"

\* C3, as stated: every wrapper that exists holds the very value that was
\* passed to the successful vet call it comes from.
OnlyVetConstructs ==
    \A w \in Wrappers : w.val = w.src

\* C3, amended: a wrapper comes into existence only as the result of a
\* successful vet on the value it holds, or by transpose from an existing
\* wrapper holding Some of that value, or as a clone of an existing wrapper.
ConstructionPaths ==
    [][ /\ (cur'.kind = "valid" /\ cur' # cur) =>
              \/ /\ pc = "done" /\ op = "vet" /\ res = "Ok"
                 /\ IsValid(impl, arg) = "Ok"
                 /\ cur'.val = arg
              \/ /\ cur.kind = "valid" /\ op' = "transpose"
                 /\ cur.val = Some(cur'.val)
        /\ (copy'.kind = "valid" /\ copy' # copy) =>
              /\ cur.kind = "valid" /\ op' = "clone"
              /\ copy'.val = cur.val
      ]_vars

ConstructionPathsWitness ==
    /\ Returned("transpose")
    /\ cur.kind = "valid"
    /\ cur.val # cur.src

\* C4: is_valid on an array returns Ok iff every element is valid (always
\* for the empty array), and otherwise exactly the error of the failing
\* element of smallest index.
ArrayLaw ==
    (pc = "idle" /\ op \in {"is_valid", "vet"} /\ arg.tag = "Array") =>
        /\ res = FirstError(arg.items)
        /\ Handed(FirstError(arg.items))
        /\ IsValidArray(impl, arg) = FirstError(arg.items)

ArrayLawWitness ==
    /\ Returned("is_valid")
    /\ arg.tag = "Array"
    /\ Cardinality(Failing(arg.items)) = 2
    /\ IsValid(impl, arg.items[1]) # IsValid(impl, arg.items[2])
    /\ ret = Ret("Err", IsValid(impl, arg.items[1]), Unit)

\* C5: is_valid on None returns Ok; on Some(t) it returns exactly what
\* is_valid on t returns.
OptionLaw ==
    (pc = "idle" /\ op \in {"is_valid", "vet"} /\ arg.tag \in {"None", "Some"}) =>
        LET r == IF arg.tag = "None" THEN "Ok" ELSE IsValid(impl, arg.items[1])
        IN  /\ res = r
            /\ Handed(r)
            /\ IsValidOption(impl, arg) = r

OptionLawWitness ==
    /\ Returned("is_valid")
    /\ arg.tag = "Some"
    /\ arg.items[1].tag = "Vec"
    /\ ret = Ret("Err", "TooShort", Unit)

\* C6: is_valid on a vector returns what is_valid returns on the array of
\* the same contents, and the other way round.
VecAsArray ==
    (pc = "idle" /\ op \in {"is_valid", "vet"}) =>
        /\ arg.tag = "Vec" =>
              /\ res = IsValidArray(impl, Array(arg.items))
              /\ Handed(IsValidArray(impl, Array(arg.items)))
              /\ res = FirstError(arg.items)
        /\ arg.tag = "Array" =>
              /\ res = IsValidVec(impl, Vec(arg.items))
              /\ Handed(IsValidVec(impl, Vec(arg.items)))

VecAsArrayWitness ==
    /\ Returned("is_valid")
    /\ arg.tag = "Vec"
    /\ Len(arg.items) = 2
    /\ IsValid(impl, arg.items[1]) = "Ok"
    /\ ret = Ret("Err", "TooLong", Unit)

\* Vetting the present branch of the raw optional o: o.map(vet).transpose().
VetPresent(o) ==
    IF o.tag = "Some"
    THEN LET r == Vet(impl, o.items[1])
         IN  IF r.kind = "Ok" THEN Ret("Some", "", r.val) ELSE r
    ELSE Ret("None", "", Unit)

\* C7: vet on an optional followed by transpose gives what vetting the
\* present branch gives: None for None, Some(Valid(t)) for a valid t, and
\* the same error for an invalid t; transpose never fails.
TransposeLaw ==
    /\ [](Returned("vet") /\ arg.tag \in {"None", "Some"} /\ ret.kind = "Err"
            => ret = VetPresent(arg))
    /\ [](pc = "idle" /\ cur.kind = "valid" /\ cur.val.tag \in {"None", "Some"}
            => ENABLED Transpose)
    /\ [][ (op' = "transpose" /\ cur' # cur) =>
              /\ cur.kind = "valid"
              /\ ret' = VetPresent(cur.val)
              /\ ret'.kind \in {"Some", "None"}
              /\ IF ret'.kind = "Some"
                 THEN cur'.kind = "valid" /\ cur'.val = ret'.val
                 ELSE cur'.kind = "none"
         ]_vars

TransposeLawWitness ==
    /\ Returned("transpose")
    /\ ret.kind = "Some"
    /\ ret.val.tag = "T"
    /\ cur.kind = "valid"

\* C8: a wrapper returned by vet keeps holding the value passed to vet: the
\* wrapper's read-only operations leave it alone, deref yields that value and
\* into_inner returns it.
ExtractionLaw ==
    /\ [](cur.kind = "valid" /\ cur.via = "vet" => cur.val = cur.src)
    /\ [](Returned("deref") =>
            /\ ret = Ret("Ref", "", cur.val)
            /\ cur.via = "vet" => ret.val = cur.src)
    /\ [][ (op' = "into_inner" /\ cur' # cur) =>
              /\ ret' = Ret("Owned", "", cur.val)
              /\ cur' = Raw(cur.ty, cur.val)
              /\ cur.via = "vet" => ret'.val = cur.src
         ]_vars
    /\ [][ (cur.kind = "valid" /\ op' \in {"deref", "clone", "eq", "is_valid"})
              => cur' = cur
         ]_vars
    /\ [][ (copy.kind = "valid" /\ op' \notin {"clone", "none"})
              => copy' = copy
         ]_vars

ExtractionLawWitness ==
    /\ Returned("into_inner")
    /\ copy.kind = "valid"
    /\ copy.val = copy.src
    /\ copy.val.tag = "Some"
    /\ ret = Ret("Owned", "", copy.src)

\* C9: while is_valid runs on an array or a vector, the elements are
\* checked in increasing index order from the first one, each at most once,
\* and nothing is checked after an element's is_valid returned an error.
\* (Indices are 1-based here: index 0 of the source is 1.)
ShortCircuitOrder ==
    /\ [](arg.tag \in {"Array", "Vec"} =>
            /\ checked = [i \in 1..Len(checked) |-> i]
            /\ Len(checked) <= Len(arg.items)
            /\ \A i \in 1..(Len(checked) - 1) : IsValid(impl, arg.items[i]) = "Ok")
    /\ [][ (arg.tag \in {"Array", "Vec"} /\ checked' # checked) =>
              \/ checked' = <<>>
              \/ /\ res = "Pending"
                 /\ checked' = Append(checked, Len(checked) + 1)
         ]_vars

ShortCircuitOrderWitness ==
    /\ pc = "done"
    /\ arg.tag = "Array"
    /\ Len(arg.items) = MaxLen
    /\ checked = <<1>>
    /\ res = "TooShort"

\* C10: every call returns, and by then vet has called is_valid on its
\* argument exactly once, is_valid on a sequence of n elements has checked
\* at most n of them, is_valid on an optional at most one, and transpose and
\* into_inner have made no is_valid call at all.
Termination ==
    /\ (pc # "idle") ~> (pc = "idle")
    /\ [](Returned("vet") => nself = 1)
    /\ [](Returned("is_valid") => nself = 1)
    /\ [](arg.tag \in {"Array", "Vec"} => Len(checked) <= Len(arg.items))
    /\ [](arg.tag \in {"None", "Some"} => Len(checked) <= 1)
    /\ [](arg.tag = "T" => checked = <<>>)
    /\ [][ op' \in {"transpose", "into_inner"} =>
              pc = "idle" /\ pc' = "idle" /\ UNCHANGED <<nself, checked, it, res>>
         ]_vars

TerminationWitness ==
    /\ Returned("vet")
    /\ arg.tag = "Vec"
    /\ Len(checked) = MaxLen
    /\ nself = 1
    /\ ret.kind = "Ok"

TypeOK ==
    /\ impl \in [Elem -> Results]
    /\ pc \in {"idle", "vet", "is_valid", "done"}
    /\ res \in Results \cup {"Pending"}
    /\ it \in 0..MaxLen
    /\ nself \in 0..1
    /\ cur.kind \in {"none", "raw", "valid"}
    /\ copy.kind \in {"none", "valid"}

====
